---- MODULE Spec2Model ----
(***************************************************************************)
(* Study-Planner-Bot: the StudyPlan aggregate (planner.py), its JSON store *)
(* (storage.py) and the commands the chat front end dispatches (app.py).   *)
(*                                                                         *)
(* Dates: an ISO date string "YYYY-MM-DD" is modelled by the ordinal of    *)
(* its day (a natural number); Optional[str] None is the value None below. *)
(* Replies are the returned messages, with the figures they interpolate.   *)
(***************************************************************************)
EXTENDS Integers, Sequences, FiniteSets, TLC

VARIABLES subjects, tasks, exams, user_stats, behavior_log,
          data_file, today, lastCmd, reply,
          awards,   \* history: the completions that raised total_points on
                    \* the current calendar day (2 stands for 2 or more)
          other     \* the aggregate of a second StudyPlan on the same store

vars == <<subjects, tasks, exams, user_stats, behavior_log,
          data_file, today, lastCmd, reply, awards, other>>

mem == <<subjects, tasks, exams, user_stats, behavior_log>>

\* ------------------------------------------------------------------ bounds
\* Spec: the whole aggregate and every command
MaxDay == 1
MaxSubjects == 2
MaxTasks == 1
MaxExams == 1
MaxLog == 1
\* SpecGame: completions, points and streaks over several days
GameMaxDay == 2
GameMaxTasks == 3
GameMaxLog == 3
\* SpecSkip: skips and completions of the same tasks
SkipMaxDay == 1
SkipMaxTasks == 2
SkipMaxLog == 2
\* SpecBulk: one task, a long behavior log
BulkMaxLog == 501
\* SpecParse: the words of a chat line
ParseMaxWords == 4
\* SpecSchedule: subjects added by chat lines, then scheduled
SchedMaxSubjects == 2
\* SpecAdapt: the skips and the day-after-day completions of earlier sessions
AdaptMaxSkips == 12
AdaptMaxStreak == 13
\* SpecLevel: the completions and the skips of earlier sessions
LevelMaxDone == 22
LevelMaxSkips == 40
\* SpecTwo: the subjects and the tasks each of two StudyPlans may hold
TwoMaxSubjects == 2
TwoMaxTasks == 1
\* SpecRevision: one exam, its date and its chapters
RevMaxDay == 2
RevMaxDate == 3
RevMaxChapter == 5

SubjectNames == {"Math"}
HoursSet == {2, 6}
Titles == {"hw"}
ExamDates == {1}
\* chapter descriptors as token lists: "1-5"
ChapterSpecs == {<<[kind |-> "range", a |-> 1, b |-> 5]>>}

\* --------------------------------------------------------------- constants
POINTS_PER_TASK == 10
POINTS_PER_SKIP_PENALTY == -3
LEVEL_POINTS_STEP == 100
MAX_STREAK_BONUS_POINTS == 5
\* 4.0 hours, in tenths of an hour
DEFAULT_STUDY_HOURS_PER_DAY == 40
\* save_behavior_log keeps the last MAX_ENTRIES entries
MAX_ENTRIES == 500

None == -1

Min(a, b) == IF a < b THEN a ELSE b
Max(a, b) == IF a > b THEN a ELSE b

\* ---------------------------------------------------------------- entities
Subject(name, hours, priority, deadline, subject_type) ==
    [name |-> name, hours_per_week |-> hours, priority |-> priority,
     deadline |-> deadline, subject_type |-> subject_type]

Subject_to_dict(s) ==
    [name |-> s.name, hours_per_week |-> s.hours_per_week,
     priority |-> s.priority, deadline |-> s.deadline,
     subject_type |-> s.subject_type]

Subject_from_dict(d) ==
    Subject(d.name, d.hours_per_week, d.priority, d.deadline, d.subject_type)

Task(id, subject_name, title, due_date, created_at) ==
    [id |-> id, subject_name |-> subject_name, title |-> title,
     due_date |-> due_date, done |-> FALSE, skipped |-> FALSE,
     created_at |-> created_at, completed_at |-> None]

Task_to_dict(t) ==
    [id |-> t.id, subject_name |-> t.subject_name, title |-> t.title,
     due_date |-> t.due_date, done |-> t.done, skipped |-> t.skipped,
     created_at |-> t.created_at, completed_at |-> t.completed_at]

Task_from_dict(d) ==
    [id |-> d.id, subject_name |-> d.subject_name, title |-> d.title,
     due_date |-> d.due_date, done |-> d.done, skipped |-> d.skipped,
     created_at |-> d.created_at, completed_at |-> d.completed_at]

Exam(id, name, subject_name, exam_date, weight, chapters) ==
    [id |-> id, name |-> name, subject_name |-> subject_name,
     exam_date |-> exam_date, weight |-> weight, chapters |-> chapters]

Exam_to_dict(e) ==
    [id |-> e.id, name |-> e.name, subject_name |-> e.subject_name,
     exam_date |-> e.exam_date, weight |-> e.weight, chapters |-> e.chapters]

Exam_from_dict(d) ==
    Exam(d.id, d.name, d.subject_name, d.exam_date, d.weight, d.chapters)

\* Exam.days_left: None for a date that does not parse
days_left(e) ==
    IF e.exam_date < 0 THEN None ELSE e.exam_date - today

\* the value returned is an int (not None) and > 0
HasDaysLeft(e) == e.exam_date >= 0 /\ days_left(e) > 0

UserStats ==
    [total_points |-> 0, current_streak |-> 0, last_completion_date |-> None]

\* variant: without the max(1, ...)
level_nomax(s) == 1 + (s.total_points \div LEVEL_POINTS_STEP)

level(s) == Max(1, 1 + (s.total_points \div LEVEL_POINTS_STEP))

UserStats_to_dict(s) ==
    [total_points |-> s.total_points, current_streak |-> s.current_streak,
     last_completion_date |-> s.last_completion_date]

UserStats_from_dict(d) ==
    [total_points |-> d.total_points, current_streak |-> d.current_streak,
     last_completion_date |-> d.last_completion_date]

\* ------------------------------------------------------------------- store
\* A JSON value as json.load returns it. type = "dict" for an object, whose
\* keys present are has and whose values are the other fields (meaningless
\* for a key that is not in has); wrong = the keys whose value is the number
\* 5 where a list or an object is expected. type = "list" for the value [].
EmptyDict ==
    [type |-> "dict", has |-> {}, wrong |-> {},
     subjects |-> <<>>, tasks |-> <<>>, exams |-> <<>>,
     user_stats |-> UserStats_to_dict(UserStats), behavior_log |-> <<>>]

\* the data file: exists = os.path.isfile, parses = json.load does not raise
\* JSONDecodeError, data = the value json.load returns
NoFile == [exists |-> FALSE, parses |-> TRUE, data |-> EmptyDict]

load_raw(f) ==
    IF ~f.exists THEN EmptyDict
    ELSE IF ~f.parses THEN EmptyDict
    ELSE f.data

save_raw(data) == [exists |-> TRUE, parses |-> TRUE, data |-> data]

load_plan_data(f) ==
    LET raw == load_raw(f) IN
    [subjects |-> IF "subjects" \in raw.has THEN raw.subjects ELSE <<>>,
     tasks    |-> IF "tasks" \in raw.has THEN raw.tasks ELSE <<>>,
     exams    |-> IF "exams" \in raw.has THEN raw.exams ELSE <<>>]

\* load_user_stats: has = FALSE stands for the default {}
load_user_stats(f) ==
    LET raw == load_raw(f) IN
    IF "user_stats" \in raw.has
    THEN [has |-> TRUE, d |-> raw.user_stats]
    ELSE [has |-> FALSE, d |-> UserStats_to_dict(UserStats)]

load_behavior_log(f) ==
    LET raw == load_raw(f) IN
    IF "behavior_log" \in raw.has THEN raw.behavior_log ELSE <<>>

\* variant: the user_stats key is left out of the blob
save_all_nostats(subjects_, tasks_, exams_, user_stats_, behavior_log_) ==
    save_raw([type |-> "dict", wrong |-> {},
              has |-> {"subjects", "tasks", "exams", "behavior_log"},
              subjects |-> subjects_, tasks |-> tasks_, exams |-> exams_,
              user_stats |-> user_stats_, behavior_log |-> behavior_log_])

save_all(subjects_, tasks_, exams_, user_stats_, behavior_log_) ==
    save_raw([type |-> "dict", wrong |-> {},
              has |-> {"subjects", "tasks", "exams", "user_stats", "behavior_log"},
              subjects |-> subjects_, tasks |-> tasks_, exams |-> exams_,
              user_stats |-> user_stats_, behavior_log |-> behavior_log_])

\* StudyPlan._save, applied to the aggregate (s, t, e, u, b)
_save(s, t, e, u, b) ==
    save_all([k \in 1..Len(s) |-> Subject_to_dict(s[k])],
             [k \in 1..Len(t) |-> Task_to_dict(t[k])],
             [k \in 1..Len(e) |-> Exam_to_dict(e[k])],
             UserStats_to_dict(u), b)

\* StudyPlan.__init__ + _load: the aggregate a new StudyPlan holds when the
\* data file is f
_load(f) ==
    LET plan == load_plan_data(f)
        stats == load_user_stats(f)
    IN  [subjects     |-> [k \in 1..Len(plan.subjects) |->
                                 Subject_from_dict(plan.subjects[k])],
         tasks        |-> [k \in 1..Len(plan.tasks) |->
                                 Task_from_dict(plan.tasks[k])],
         exams        |-> [k \in 1..Len(plan.exams) |->
                                 Exam_from_dict(plan.exams[k])],
         user_stats   |-> IF stats.has THEN UserStats_from_dict(stats.d)
                          ELSE UserStats,
         behavior_log |-> load_behavior_log(f)]

\* raw.get(...) on a value that is not a dict raises AttributeError
get_raises(raw) == raw.type # "dict"

\* `for s in 5` raises TypeError, UserStats.from_dict(5) AttributeError;
\* load_behavior_log hands its value on without looking at it
_load_raises(f) ==
    LET raw == load_raw(f) IN
    \/ get_raises(raw)
    \/ \E k \in {"subjects", "tasks", "exams", "user_stats"} :
           k \in raw.has /\ k \in raw.wrong

\* ----------------------------------------------------------------- replies
Reply(msg, points, streak, lvl, n) ==
    [msg |-> msg, points |-> points, streak |-> streak, level |-> lvl, n |-> n,
     data |-> <<>>, buckets |-> <<>>]

Msg(msg) == Reply(msg, 0, 0, 0, 0)

\* a reply that lists numbers (minutes, hours in tenths)
DataReply(msg, data) == [Msg(msg) EXCEPT !.data = data]

\* a reply that lists day-buckets of chapters
BucketReply(msg, n, buckets) == [Msg(msg) EXCEPT !.n = n, !.buckets = buckets]

Cmd(op, arg) == [op |-> op, arg |-> arg]

_today_str == today

\* str(uuid.uuid4())[:8] is an opaque token: a token no entity of the list
\* has is named by the next unused number
FreshId(entities) == Len(entities) + 1

\* nothing checks the new token against the ids in use: it is fresh or
\* equal to one of them
NewIds(entities) == 1..FreshId(entities)

\* the ids a call may name: those in use and one that no entity has
QueryIds(entities) == 1..FreshId(entities)

\* ------------------------------------------------------------------- state
\* no second StudyPlan exists
NoOther ==
    [live |-> FALSE, subjects |-> <<>>, tasks |-> <<>>, exams |-> <<>>,
     user_stats |-> UserStats, behavior_log |-> <<>>]

Init ==
    /\ data_file = NoFile
    /\ today = 0
    /\ subjects = _load(data_file).subjects
    /\ tasks = _load(data_file).tasks
    /\ exams = _load(data_file).exams
    /\ user_stats = _load(data_file).user_stats
    /\ behavior_log = _load(data_file).behavior_log
    /\ lastCmd = Cmd("init", 0)
    /\ reply = Msg("greeting")
    /\ awards = 0
    /\ other = NoOther

\* date.today() moves on to the next calendar day
Tick ==
    /\ today' = today + 1
    /\ awards' = 0
    /\ UNCHANGED <<mem, data_file, lastCmd, reply, other>>

\* ---------------------------------------------------------------- subjects
add_subject(name, hours, priority, deadline, subject_type) ==
    /\ subjects' = Append(subjects, Subject(name, hours, priority, deadline, subject_type))
    /\ UNCHANGED <<tasks, exams, user_stats, behavior_log, today, awards, other>>
    /\ data_file' = _save(subjects', tasks', exams', user_stats', behavior_log')
    /\ lastCmd' = Cmd("add_subject", 0)
    /\ reply' = Msg("Added")

\* ------------------------------------------------------------------- tasks
\* tid: the value of str(uuid.uuid4())[:8]
add_task(subject_name, title, due_date, tid) ==
    /\ tasks' = Append(tasks, Task(tid, subject_name, title, due_date, _today_str))
    /\ UNCHANGED <<subjects, exams, user_stats, behavior_log, today, awards, other>>
    /\ data_file' = _save(subjects', tasks', exams', user_stats', behavior_log')
    /\ lastCmd' = Cmd("add_task", tid)
    /\ reply' = Msg("Task added")

\* variant: after a loop without a match the loop variable (the last task)
\* is used
FirstTask_lastleaks(task_id) ==
    IF \E i \in 1..Len(tasks) : tasks[i].id = task_id
    THEN CHOOSE i \in 1..Len(tasks) :
            /\ tasks[i].id = task_id
            /\ \A j \in 1..(i-1) : tasks[j].id # task_id
    ELSE Len(tasks)

\* index of the first task the loop `for t in self.tasks` finds with the id,
\* 0 when the loop ends without a match
FirstTask(task_id) ==
    IF \E i \in 1..Len(tasks) : tasks[i].id = task_id
    THEN CHOOSE i \in 1..Len(tasks) :
            /\ tasks[i].id = task_id
            /\ \A j \in 1..(i-1) : tasks[j].id # task_id
    ELSE 0

\* variant: any later day continues the streak (delta >= 1 for delta == 1)
_update_streak_anygap(last_date, today_) ==
    IF last_date = None THEN 1
    ELSE LET delta == today - last_date IN
         IF delta = 0 THEN 0
         ELSE IF delta >= 1 THEN 1
         ELSE 0

_update_streak(last_date, today_) ==
    IF last_date = None THEN 1
    ELSE LET delta == today - last_date IN
         IF delta = 0 THEN 0
         ELSE IF delta = 1 THEN 1
         ELSE 0

LogEntry(date, task_id, action, title) ==
    [date |-> date, task_id |-> task_id, action |-> action, title |-> title]

\* variant: the streak always grows, a gap does not reset it
AwardCompletion_never_resets(s, today_) ==
    LET streak == s.current_streak + 1
        bonus == IF streak > 1 THEN Min(MAX_STREAK_BONUS_POINTS, streak - 1) ELSE 0
    IN  [total_points |-> s.total_points + POINTS_PER_TASK + bonus,
         current_streak |-> streak,
         last_completion_date |-> today_]

\* the `else` branch of complete_task: streak and points
AwardCompletion(s, today_) ==
    LET streak_inc == _update_streak(s.last_completion_date, today_)
        streak == IF streak_inc = 0 /\ s.last_completion_date # today_
                  THEN 1 ELSE s.current_streak + 1
        bonus == IF streak > 1 THEN Min(MAX_STREAK_BONUS_POINTS, streak - 1) ELSE 0
    IN  [total_points |-> s.total_points + POINTS_PER_TASK + bonus,
         current_streak |-> streak,
         last_completion_date |-> today_]

\* variant: the early return is missing
CompleteIsNoop_never(t) == FALSE

\* `if t.done: return "Task already done."` of complete_task
CompleteIsNoop(t) == t.done

\* variant: no test of last_completion_date == today
complete_task_awards_always(task_id) ==
    LET i == FirstTask(task_id) IN
    /\ lastCmd' = Cmd("complete_task", task_id)
    /\ UNCHANGED <<subjects, exams, today, other>>
    /\ IF i = 0
       THEN /\ reply' = Msg("Task not found.")
            /\ UNCHANGED <<tasks, user_stats, behavior_log, data_file>>
       ELSE IF CompleteIsNoop(tasks[i])
       THEN /\ reply' = Msg("Task already done.")
            /\ UNCHANGED <<tasks, user_stats, behavior_log, data_file>>
       ELSE /\ tasks' = [tasks EXCEPT ![i].done = TRUE,
                                      ![i].completed_at = _today_str]
            /\ user_stats' = AwardCompletion(user_stats, _today_str)
            /\ behavior_log' = Append(behavior_log,
                   LogEntry(_today_str, task_id, "done", tasks[i].title))
            /\ data_file' = _save(subjects', tasks', exams', user_stats', behavior_log')
            /\ reply' = Reply("Done.", POINTS_PER_TASK,
                              user_stats'.current_streak, level(user_stats'), 0)
    /\ awards' = IF user_stats'.total_points > user_stats.total_points
                 THEN Min(2, awards + 1) ELSE awards

complete_task(task_id) ==
    LET i == FirstTask(task_id) IN
    /\ lastCmd' = Cmd("complete_task", task_id)
    /\ UNCHANGED <<subjects, exams, today, other>>
    /\ IF i = 0
       THEN /\ reply' = Msg("Task not found.")
            /\ UNCHANGED <<tasks, user_stats, behavior_log, data_file>>
       ELSE IF CompleteIsNoop(tasks[i])
       THEN /\ reply' = Msg("Task already done.")
            /\ UNCHANGED <<tasks, user_stats, behavior_log, data_file>>
       ELSE /\ tasks' = [tasks EXCEPT ![i].done = TRUE,
                                      ![i].completed_at = _today_str]
            /\ user_stats' = IF user_stats.last_completion_date = _today_str
                             THEN user_stats
                             ELSE AwardCompletion(user_stats, _today_str)
            /\ behavior_log' = Append(behavior_log,
                   LogEntry(_today_str, task_id, "done", tasks[i].title))
            /\ data_file' = _save(subjects', tasks', exams', user_stats', behavior_log')
            /\ reply' = Reply("Done.", POINTS_PER_TASK,
                              user_stats'.current_streak, level(user_stats'), 0)
    /\ awards' = IF user_stats'.total_points > user_stats.total_points
                 THEN Min(2, awards + 1) ELSE awards

Recent(log) == SubSeq(log, Max(1, Len(log) - 13), Len(log))

CountAction(log, action) ==
    Cardinality({k \in 1..Len(log) : log[k].action = action})

_recent_skips(log) == CountAction(Recent(log), "skip")

\* `if t.done: return "Task already done."` of skip_task
SkipIsNoop(t) == t.done

\* variant: the penalty is applied to the first skip of a day only
skip_task_once_a_day(task_id) ==
    LET i == FirstTask(task_id) IN
    /\ lastCmd' = Cmd("skip_task", task_id)
    /\ UNCHANGED <<subjects, exams, today, awards, other>>
    /\ IF i = 0
       THEN /\ reply' = Msg("Task not found.")
            /\ UNCHANGED <<tasks, user_stats, behavior_log, data_file>>
       ELSE IF SkipIsNoop(tasks[i])
       THEN /\ reply' = Msg("Task already done.")
            /\ UNCHANGED <<tasks, user_stats, behavior_log, data_file>>
       ELSE /\ tasks' = [tasks EXCEPT ![i].skipped = TRUE]
            /\ user_stats' =
                   IF \E k \in 1..Len(behavior_log) :
                          /\ behavior_log[k].action = "skip"
                          /\ behavior_log[k].date = _today_str
                   THEN user_stats
                   ELSE [user_stats EXCEPT
                            !.total_points = @ + POINTS_PER_SKIP_PENALTY]
            /\ behavior_log' = Append(behavior_log,
                   LogEntry(_today_str, task_id, "skip", tasks[i].title))
            /\ data_file' = _save(subjects', tasks', exams', user_stats', behavior_log')
            /\ LET n == _recent_skips(behavior_log') IN
               reply' = IF n >= 3
                        THEN Reply("Skipped. Next skip will reduce your daily plan.",
                                   POINTS_PER_SKIP_PENALTY, 0, 0, n)
                        ELSE Reply("Skipped. Stay consistent.",
                                   POINTS_PER_SKIP_PENALTY, 0, 0, 0)

skip_task(task_id) ==
    LET i == FirstTask(task_id) IN
    /\ lastCmd' = Cmd("skip_task", task_id)
    /\ UNCHANGED <<subjects, exams, today, awards, other>>
    /\ IF i = 0
       THEN /\ reply' = Msg("Task not found.")
            /\ UNCHANGED <<tasks, user_stats, behavior_log, data_file>>
       ELSE IF SkipIsNoop(tasks[i])
       THEN /\ reply' = Msg("Task already done.")
            /\ UNCHANGED <<tasks, user_stats, behavior_log, data_file>>
       ELSE /\ tasks' = [tasks EXCEPT ![i].skipped = TRUE]
            /\ user_stats' = [user_stats EXCEPT
                   !.total_points = @ + POINTS_PER_SKIP_PENALTY]
            /\ behavior_log' = Append(behavior_log,
                   LogEntry(_today_str, task_id, "skip", tasks[i].title))
            /\ data_file' = _save(subjects', tasks', exams', user_stats', behavior_log')
            /\ LET n == _recent_skips(behavior_log') IN
               reply' = IF n >= 3
                        THEN Reply("Skipped. Next skip will reduce your daily plan.",
                                   POINTS_PER_SKIP_PENALTY, 0, 0, n)
                        ELSE Reply("Skipped. Stay consistent.",
                                   POINTS_PER_SKIP_PENALTY, 0, 0, 0)

\* ------------------------------------------------------------------- exams
\* eid: the value of str(uuid.uuid4())[:8]
add_exam(name, subject_name, exam_date, weight, chapters, eid) ==
    /\ exams' = Append(exams, Exam(eid, name, subject_name, exam_date, weight, chapters))
    /\ UNCHANGED <<subjects, tasks, user_stats, behavior_log, today, awards, other>>
    /\ data_file' = _save(subjects', tasks', exams', user_stats', behavior_log')
    /\ lastCmd' = Cmd("add_exam", eid)
    /\ reply' = Msg("Exam added")

FirstExam(exam_id) ==
    IF \E i \in 1..Len(exams) : exams[i].id = exam_id
    THEN CHOOSE i \in 1..Len(exams) :
            /\ exams[i].id = exam_id
            /\ \A j \in 1..(i-1) : exams[j].id # exam_id
    ELSE 0

Range(a, b) == [k \in 1..Max(0, b - a + 1) |-> a + k - 1]

\* the parse loop of get_revision_plan over the tokens of the descriptor;
\* a literal token is kept as the item -a
RECURSIVE ParseChapters(_)
ParseChapters(toks) ==
    IF toks = <<>> THEN <<>>
    ELSE LET p == Head(toks)
             items == IF p.kind = "range" THEN Range(p.a, p.b)
                      ELSE IF p.kind = "int" THEN <<p.a>>
                      ELSE <<-p.a>>
         IN  items \o ParseChapters(Tail(toks))

\* the `while i < n and day <= days` loop; i counts consumed items
RECURSIVE Spread(_, _, _, _, _)
Spread(parts, i, day, days, per_day) ==
    IF i < Len(parts) /\ day <= days
    THEN LET chunk == SubSeq(parts, i + 1, Min(Len(parts), i + per_day))
         IN  <<chunk>> \o Spread(parts, i + Len(chunk), day + 1, days, per_day)
    ELSE <<>>

\* variant: n // days in place of (n + days - 1) // days
PerDay_floor(n, days) == Max(1, n \div days)

\* per_day = max(1, (n + days - 1) // days)
PerDay(n, days) == Max(1, (n + days - 1) \div days)

get_revision_plan(exam_id) ==
    LET i == FirstExam(exam_id) IN
    /\ lastCmd' = Cmd("get_revision_plan", exam_id)
    /\ UNCHANGED <<mem, data_file, today, awards, other>>
    /\ IF i = 0 THEN reply' = Msg("Exam not found.")
       ELSE IF ~HasDaysLeft(exams[i])
       THEN reply' = Msg("date passed or invalid. No revision plan.")
       ELSE IF exams[i].chapters = <<>>
       THEN reply' = Msg("Add chapters first")
       ELSE LET parsed == ParseChapters(exams[i].chapters)
                parts == IF parsed = <<>> THEN <<0>> ELSE parsed
                days == days_left(exams[i])
                n == Len(parts)
                per_day == PerDay(n, days)
            IN  reply' = BucketReply("Revision plan", n,
                                     Spread(parts, 0, 1, days, per_day))

\* --------------------------------------------------------- read-only views
list_subjects ==
    /\ lastCmd' = Cmd("list_subjects", 0)
    /\ UNCHANGED <<mem, data_file, today, awards, other>>
    /\ reply' = IF subjects = <<>> THEN Msg("No subjects.")
                ELSE DataReply("Your subjects:",
                               [k \in 1..Len(subjects) |-> subjects[k].hours_per_week])

list_tasks(pending_only) ==
    LET shown == SelectSeq(tasks, LAMBDA t : ~pending_only \/ (~t.done /\ ~t.skipped)) IN
    /\ lastCmd' = Cmd("list_tasks", IF pending_only THEN 1 ELSE 0)
    /\ UNCHANGED <<mem, data_file, today, awards, other>>
    /\ reply' = IF shown = <<>> THEN Msg("No tasks.")
                ELSE DataReply("Tasks:", [k \in 1..Len(shown) |-> shown[k].id])

list_exams ==
    /\ lastCmd' = Cmd("list_exams", 0)
    /\ UNCHANGED <<mem, data_file, today, awards, other>>
    /\ reply' = IF exams = <<>> THEN Msg("No exams.")
                ELSE DataReply("Exams:", [k \in 1..Len(exams) |-> exams[k].id])

get_stats_text ==
    /\ lastCmd' = Cmd("get_stats_text", 0)
    /\ UNCHANGED <<mem, data_file, today, awards, other>>
    /\ reply' = Reply("stats", user_stats.total_points,
                      user_stats.current_streak, level(user_stats), 0)

\* sorted(self.subjects, key=(priority, -hours_per_week)): stable insertion
SortKeyLess(x, y) ==
    \/ x.priority < y.priority
    \/ x.priority = y.priority /\ x.hours_per_week > y.hours_per_week

RECURSIVE InsertSorted(_, _)
InsertSorted(s, x) ==
    IF s = <<>> THEN <<x>>
    ELSE IF SortKeyLess(x, Head(s)) THEN <<x>> \o s
    ELSE <<Head(s)>> \o InsertSorted(Tail(s), x)

RECURSIVE Sorted(_)
Sorted(s) ==
    IF s = <<>> THEN <<>>
    ELSE InsertSorted(Sorted(SubSeq(s, 1, Len(s) - 1)), s[Len(s)])

RECURSIVE SumHours(_)
SumHours(s) ==
    IF s = <<>> THEN 0 ELSE Head(s).hours_per_week + SumHours(Tail(s))

OrOne(h) == IF h = 0 THEN 1 ELSE h

\* hours are in tenths of an hour: minutes = int(h * 60 * w / max(total, 1))
DailyMinutes(s, total, h10) ==
    Max(15, (h10 * 6 * OrOne(s.hours_per_week)) \div Max(total, 1))

\* variant: self.subjects.sort(...) in place of sorted(self.subjects, ...)
suggest_daily_schedule_sorts_in_place(h10) ==
    /\ lastCmd' = Cmd("suggest_daily_schedule", h10)
    /\ subjects' = Sorted(subjects)
    /\ UNCHANGED <<tasks, exams, user_stats, behavior_log, data_file, today, awards, other>>
    /\ IF subjects = <<>> THEN reply' = Msg("Add subjects first.")
       ELSE LET sum == SumHours(subjects)
                total == IF sum = 0 THEN Len(subjects) * 2 ELSE sum
            IN  reply' = DataReply("Today's plan",
                    [k \in 1..Len(subjects) |->
                        DailyMinutes(Sorted(subjects)[k], total, h10)])

suggest_daily_schedule(h10) ==
    /\ lastCmd' = Cmd("suggest_daily_schedule", h10)
    /\ UNCHANGED <<mem, data_file, today, awards, other>>
    /\ IF subjects = <<>> THEN reply' = Msg("Add subjects first.")
       ELSE LET sum == SumHours(subjects)
                total == IF sum = 0 THEN Len(subjects) * 2 ELSE sum
                sorted_subs == Sorted(subjects)
            IN  reply' = DataReply("Today's plan",
                    [k \in 1..Len(sorted_subs) |->
                        DailyMinutes(sorted_subs[k], total, h10)])

\* minutes per day = max(10, int(w / 7 * 60))
suggest_weekly_schedule(h10) ==
    /\ lastCmd' = Cmd("suggest_weekly_schedule", h10)
    /\ UNCHANGED <<mem, data_file, today, awards, other>>
    /\ IF subjects = <<>> THEN reply' = Msg("Add subjects first.")
       ELSE LET sorted_subs == Sorted(subjects)
            IN  reply' = DataReply("This week",
                    [k \in 1..Len(sorted_subs) |->
                        Max(10, (OrOne(sorted_subs[k].hours_per_week) * 60) \div 7)])

\* variant: the streak is tested before the skips
AdaptiveHours_streak_first ==
    LET recent == Recent(behavior_log)
        skips == CountAction(recent, "skip")
        dones == CountAction(recent, "done")
    IN  IF user_stats.current_streak >= 3
        THEN Min(60, DEFAULT_STUDY_HOURS_PER_DAY + 5)
        ELSE IF skips > dones /\ skips >= 3
        THEN Max(20, DEFAULT_STUDY_HOURS_PER_DAY - 10)
        ELSE DEFAULT_STUDY_HOURS_PER_DAY

\* hours in tenths: 4.0 - 1.0, 4.0 + 0.5, 4.0
AdaptiveHours ==
    LET recent == Recent(behavior_log)
        skips == CountAction(recent, "skip")
        dones == CountAction(recent, "done")
    IN  IF skips > dones /\ skips >= 3
        THEN Max(20, DEFAULT_STUDY_HOURS_PER_DAY - 10)
        ELSE IF user_stats.current_streak >= 3
        THEN Min(60, DEFAULT_STUDY_HOURS_PER_DAY + 5)
        ELSE DEFAULT_STUDY_HOURS_PER_DAY

get_adaptive_study_hours ==
    /\ lastCmd' = Cmd("get_adaptive_study_hours", 0)
    /\ UNCHANGED <<mem, data_file, today, awards, other>>
    /\ reply' = DataReply("hours", <<AdaptiveHours>>)

get_schedule_strict_note ==
    /\ lastCmd' = Cmd("get_schedule_strict_note", 0)
    /\ UNCHANGED <<mem, data_file, today, awards, other>>
    /\ reply' = IF _recent_skips(behavior_log) >= 3
                THEN Msg("Your plan is reduced") ELSE Msg("")

\* variant: user_stats is not reset
clear_keeps_stats ==
    /\ subjects' = <<>>
    /\ tasks' = <<>>
    /\ exams' = <<>>
    /\ behavior_log' = <<>>
    /\ UNCHANGED <<user_stats, today, awards, other>>
    /\ data_file' = _save(subjects', tasks', exams', user_stats', behavior_log')
    /\ lastCmd' = Cmd("clear", 0)
    /\ reply' = Msg("All data cleared. Fresh start.")

clear ==
    /\ subjects' = <<>>
    /\ tasks' = <<>>
    /\ exams' = <<>>
    /\ user_stats' = UserStats
    /\ behavior_log' = <<>>
    /\ UNCHANGED <<today, awards, other>>
    /\ data_file' = _save(subjects', tasks', exams', user_stats', behavior_log')
    /\ lastCmd' = Cmd("clear", 0)
    /\ reply' = Msg("All data cleared. Fresh start.")

\* ------------------------------------------------------- the add command
\* A chat line is the sequence of its whitespace-separated words.
Words == {"add", "Add", "please", "Math", "dsa", "5", "0", "-3", "hours", "subject"}

\* str.lower() on the words of the vocabulary
lower(w) ==
    CASE w = "Add" -> "add"
      [] w = "Math" -> "math"
      [] OTHER -> w

\* float(p) succeeds (no ValueError)
IsFloat(w) == w \in {"5", "0", "-3", "2", "6"}

\* float(p), in hours
float(w) ==
    CASE w = "5" -> 5
      [] w = "0" -> 0
      [] w = "-3" -> 0 - 3
      [] w = "2" -> 2
      [] w = "6" -> 6

\* " ".join(words)
RECURSIVE Join(_)
Join(words) ==
    IF words = <<>> THEN ""
    ELSE IF Len(words) = 1 THEN words[1]
    ELSE words[1] \o " " \o Join(Tail(words))

\* the words .replace("subject", "").replace("topic", "") turns into ""
Fillers == {"subject", "topic"}

SUBJECT_TYPE_KEYWORDS ==
    [coding |-> {"coding", "code", "dsa", "programming", "algorithms",
                 "interview", "debugging"},
     college |-> {"college", "theory", "numericals", "derivations"}]

\* `kw in rest` for the words of the vocabulary: a word of rest is kw
_infer_subject_type(rest) ==
    IF \E k \in 1..Len(rest) : rest[k] \in SUBJECT_TYPE_KEYWORDS.coding
    THEN "coding"
    ELSE IF \E k \in 1..Len(rest) : rest[k] \in SUBJECT_TYPE_KEYWORDS.college
    THEN "college"
    ELSE "general"

\* text.strip().split(" add ", 1)[-1]: the words after the first word that
\* is exactly "add" with a word before it and a word after it; the whole
\* text when there is none
AfterAdd(text) ==
    LET at == {k \in 2..(Len(text) - 1) : text[k] = "add"} IN
    IF at = {} THEN text
    ELSE LET k == CHOOSE k \in at : \A j \in at : k <= j
         IN  SubSeq(text, k + 1, Len(text))

\* the `return None` of parse_add_command
NotParsed == [ok |-> FALSE, name |-> "", hours |-> 0, subject_type |-> ""]

parse_add_command(text) ==
    LET t == [k \in 1..Len(text) |-> lower(text[k])]
        startswith == Len(t) >= 2 /\ t[1] = "add"
        inside == \E k \in 2..(Len(t) - 1) : t[k] = "add"
        rest == SelectSeq(AfterAdd(text), LAMBDA w : w \notin Fillers)
        nums == {k \in 1..Len(rest) : IsFloat(rest[k])}
        j == IF nums = {} THEN 0 ELSE CHOOSE k \in nums : \A i \in nums : k <= i
        name_parts == IF j = 0 THEN rest ELSE SubSeq(rest, 1, j - 1)
        hours == IF j = 0 THEN 0 ELSE float(rest[j])
    IN  IF ~startswith /\ ~inside THEN NotParsed
        ELSE IF rest = <<>> THEN NotParsed
        ELSE [ok |-> TRUE,
              name |-> IF name_parts # <<>> THEN Join(name_parts) ELSE rest[1],
              hours |-> IF hours = 0 THEN 2 ELSE hours,
              subject_type |-> _infer_subject_type(rest)]

\* bot_response on a line of words of the vocabulary: the add branch, or
\* the final "Unclear." return (no other branch matches these words)
bot_response(text) ==
    LET add_parsed == parse_add_command(text) IN
    IF add_parsed.ok
    THEN add_subject(add_parsed.name, add_parsed.hours, 1, None,
                     add_parsed.subject_type)
    ELSE /\ lastCmd' = Cmd("unclear", 0)
         /\ reply' = Msg("Unclear.")
         /\ UNCHANGED <<mem, data_file, today, awards, other>>

Next ==
    \/ /\ today < MaxDay
       /\ Tick
    \/ /\ Len(subjects) < MaxSubjects
       /\ \E name \in SubjectNames, hours \in HoursSet :
              add_subject(name, hours, 1, None, "general")
    \/ /\ Len(tasks) < MaxTasks
       /\ \E title \in Titles, tid \in {FreshId(tasks)} :
              add_task("Math", title, None, tid)
    \/ /\ Len(behavior_log) < MaxLog
       /\ \E id \in QueryIds(tasks) : complete_task(id)
    \/ /\ Len(behavior_log) < MaxLog
       /\ \E id \in QueryIds(tasks) : skip_task(id)
    \/ /\ Len(exams) < MaxExams
       /\ \E d \in ExamDates, ch \in ChapterSpecs, eid \in {FreshId(exams)} :
              add_exam("mid", "Math", d, "", ch, eid)
    \/ \E id \in QueryIds(exams) : get_revision_plan(id)
    \/ list_subjects
    \/ \E p \in BOOLEAN : list_tasks(p)
    \/ list_exams
    \/ get_stats_text
    \/ suggest_daily_schedule(AdaptiveHours)
    \/ suggest_weekly_schedule(AdaptiveHours)
    \/ get_adaptive_study_hours
    \/ get_schedule_strict_note
    \/ clear

Spec == Init /\ [][Next]_vars

NextGame ==
    \/ /\ today < GameMaxDay
       /\ Tick
    \/ /\ Len(tasks) < GameMaxTasks
       /\ \E title \in Titles, tid \in NewIds(tasks) :
              add_task("Math", title, None, tid)
    \/ /\ Len(behavior_log) < GameMaxLog
       /\ \E id \in QueryIds(tasks) : complete_task(id)
    \/ clear

SpecGame == Init /\ [][NextGame]_vars

NextSkip ==
    \/ /\ today < SkipMaxDay
       /\ Tick
    \/ /\ Len(tasks) < SkipMaxTasks
       /\ \E title \in Titles, tid \in NewIds(tasks) :
              add_task("Math", title, None, tid)
    \/ /\ Len(behavior_log) < SkipMaxLog
       /\ \E id \in QueryIds(tasks) : complete_task(id)
    \/ /\ Len(behavior_log) < SkipMaxLog
       /\ \E id \in QueryIds(tasks) : skip_task(id)
    \/ clear

SpecSkip == Init /\ [][NextSkip]_vars

NextBulk ==
    \/ /\ Len(tasks) < 1
       /\ \E title \in Titles, tid \in NewIds(tasks) :
              add_task("Math", title, None, tid)
    \/ /\ Len(behavior_log) < BulkMaxLog
       /\ \E id \in QueryIds(tasks) : skip_task(id)
    \/ /\ Len(behavior_log) < BulkMaxLog
       /\ \E id \in QueryIds(tasks) : complete_task(id)

SpecBulk == Init /\ [][NextBulk]_vars

\* the contents the data file may have when the application starts: an
\* object written by an earlier session, with any of its keys missing or
\* holding a number in place of a list / an object
StoredDict(has, wrong) ==
    [type |-> "dict", has |-> has, wrong |-> wrong,
     subjects |-> <<Subject_to_dict(Subject("Math", 2, 1, None, "general"))>>,
     tasks |-> <<Task_to_dict([Task(1, "Math", "hw", None, 0)
                                  EXCEPT !.done = TRUE, !.completed_at = 0])>>,
     exams |-> <<Exam_to_dict(Exam(1, "mid", "Math", 1, "", <<>>))>>,
     user_stats |-> [total_points |-> 10, current_streak |-> 1,
                     last_completion_date |-> 0],
     behavior_log |-> <<LogEntry(0, 1, "done", "hw")>>]

StoredKeys == {"subjects", "tasks", "exams", "user_stats", "behavior_log"}

StoreContents ==
    {NoFile,
     [exists |-> TRUE, parses |-> FALSE, data |-> EmptyDict],
     [exists |-> TRUE, parses |-> TRUE, data |-> [EmptyDict EXCEPT !.type = "list"]]}
    \cup UNION {{[exists |-> TRUE, parses |-> TRUE, data |-> StoredDict(has, wrong)] :
                    wrong \in SUBSET (has \ {"behavior_log"})} :
                has \in SUBSET StoredKeys}

\* the process has started and no StudyPlan has been constructed yet
InitLoad ==
    /\ data_file \in StoreContents
    /\ today = 0
    /\ subjects = <<>>
    /\ tasks = <<>>
    /\ exams = <<>>
    /\ user_stats = UserStats
    /\ behavior_log = <<>>
    /\ lastCmd = Cmd("start", 0)
    /\ reply = Msg("")
    /\ awards = 0
    /\ other = NoOther

\* `st.session_state.plan = StudyPlan()`: __init__ sets the defaults and
\* calls _load; an exception of _load leaves the session without a plan
StudyPlan__init__ ==
    /\ lastCmd.op = "start"
    /\ lastCmd' = Cmd("StudyPlan", 0)
    /\ UNCHANGED <<data_file, today, awards, other>>
    /\ IF _load_raises(data_file)
       THEN /\ reply' = Msg("raised")
            /\ UNCHANGED mem
       ELSE /\ reply' = Msg("greeting")
            /\ subjects' = _load(data_file).subjects
            /\ tasks' = _load(data_file).tasks
            /\ exams' = _load(data_file).exams
            /\ user_stats' = _load(data_file).user_stats
            /\ behavior_log' = _load(data_file).behavior_log

NextLoad == StudyPlan__init__

SpecLoad == InitLoad /\ [][NextLoad]_vars

\* chapter descriptors "1-m", "1, x, 3" and "5-1"
RevChapterSpecs ==
    {<<[kind |-> "range", a |-> 1, b |-> m]>> : m \in 1..RevMaxChapter}
    \cup {<<[kind |-> "int", a |-> 1, b |-> 0], [kind |-> "lit", a |-> 2, b |-> 0],
            [kind |-> "int", a |-> 3, b |-> 0]>>,
          <<[kind |-> "range", a |-> 5, b |-> 1]>>}

NextRevision ==
    \/ /\ today < RevMaxDay
       /\ Tick
    \/ /\ exams = <<>>
       /\ \E d \in 1..RevMaxDate, ch \in RevChapterSpecs, eid \in {FreshId(exams)} :
              add_exam("mid", "Math", d, "", ch, eid)
    \/ \E id \in QueryIds(exams) : get_revision_plan(id)

SpecRevision == Init /\ [][NextRevision]_vars

\* chat lines that add a subject
SchedLines ==
    {<<"please", "add", "Math", "6">>, <<"please", "add", "dsa", "2">>,
     <<"please", "add", "Math", "-3">>, <<"please", "add", "dsa", "5">>,
     <<"please", "add", "Math">>, <<"please", "add", "dsa", "6">>}

\* study_hours_per_day, in tenths of an hour: the values
\* get_adaptive_study_hours returns
SchedHoursPerDay == {30, 40, 45}

NextSchedule ==
    \/ /\ Len(subjects) < SchedMaxSubjects
       /\ \E line \in SchedLines : bot_response(line)
    \/ \E h10 \in SchedHoursPerDay : suggest_daily_schedule(h10)
    \/ clear

SpecSchedule == Init /\ [][NextSchedule]_vars

\* total_points after completions on k consecutive days
RECURSIVE PointsAfter(_)
PointsAfter(k) ==
    IF k = 0 THEN 0
    ELSE PointsAfter(k - 1) + POINTS_PER_TASK
             + Min(MAX_STREAK_BONUS_POINTS, k - 1)

\* The aggregate earlier sessions leave behind: k + 1 tasks added on day 0;
\* task 1 skipped s1 times on day 0; tasks 2 .. k+1 completed one a day on
\* days 0 .. k-1; task 1 skipped s2 more times on the last of these days.
ResumedPlan(s1, k, s2) ==
    LET last == IF k = 0 THEN 0 ELSE k - 1 IN
    [subjects |-> <<>>,
     tasks |-> [i \in 1..(k + 1) |->
                  IF i = 1
                  THEN [Task(1, "Math", "hw", None, 0) EXCEPT !.skipped = s1 + s2 > 0]
                  ELSE [Task(i, "Math", "hw", None, 0)
                           EXCEPT !.done = TRUE, !.completed_at = i - 2]],
     exams |-> <<>>,
     user_stats |-> [total_points |-> PointsAfter(k)
                                         + (s1 + s2) * POINTS_PER_SKIP_PENALTY,
                     current_streak |-> k,
                     last_completion_date |-> IF k = 0 THEN None ELSE last],
     behavior_log |-> [i \in 1..s1 |-> LogEntry(0, 1, "skip", "hw")]
                      \o [i \in 1..k |-> LogEntry(i - 1, i + 1, "done", "hw")]
                      \o [i \in 1..s2 |-> LogEntry(last, 1, "skip", "hw")],
     today |-> last]

\* a session resumed on the store earlier sessions left
InitAdapt ==
    \E s1 \in 0..AdaptMaxSkips, k \in 0..AdaptMaxStreak, s2 \in 0..AdaptMaxSkips :
        LET plan == ResumedPlan(s1, k, s2) IN
        /\ data_file = _save(plan.subjects, plan.tasks, plan.exams,
                             plan.user_stats, plan.behavior_log)
        /\ today = plan.today
        /\ subjects = _load(data_file).subjects
        /\ tasks = _load(data_file).tasks
        /\ exams = _load(data_file).exams
        /\ user_stats = _load(data_file).user_stats
        /\ behavior_log = _load(data_file).behavior_log
        /\ lastCmd = Cmd("init", 0)
        /\ reply = Msg("greeting")
        /\ awards = IF k > 0 THEN 1 ELSE 0
        /\ other = NoOther

NextAdapt ==
    \/ get_adaptive_study_hours
    \/ get_schedule_strict_note

SpecAdapt == InitAdapt /\ [][NextAdapt]_vars

\* The aggregate earlier sessions leave behind: c + 1 tasks added on day 0;
\* task 1 skipped m times on day 0; tasks 2 .. c+1 completed on days
\* 0, 2, 4, ..., so that every completion opens a streak of 1 and earns
\* POINTS_PER_TASK.
ScoredPlan(c, m) ==
    LET last == IF c = 0 THEN 0 ELSE 2 * (c - 1) IN
    [subjects |-> <<>>,
     tasks |-> [i \in 1..(c + 1) |->
                  IF i = 1
                  THEN [Task(1, "Math", "hw", None, 0) EXCEPT !.skipped = m > 0]
                  ELSE [Task(i, "Math", "hw", None, 0)
                           EXCEPT !.done = TRUE, !.completed_at = 2 * (i - 2)]],
     exams |-> <<>>,
     user_stats |-> [total_points |-> c * POINTS_PER_TASK
                                         + m * POINTS_PER_SKIP_PENALTY,
                     current_streak |-> IF c = 0 THEN 0 ELSE 1,
                     last_completion_date |-> IF c = 0 THEN None ELSE last],
     behavior_log |-> [i \in 1..m |-> LogEntry(0, 1, "skip", "hw")]
                      \o [i \in 1..c |-> LogEntry(2 * (i - 1), i + 1, "done", "hw")],
     today |-> last]

\* a session resumed on the store earlier sessions left
InitLevel ==
    \E c \in 0..LevelMaxDone, m \in 0..LevelMaxSkips :
        LET plan == ScoredPlan(c, m) IN
        /\ data_file = _save(plan.subjects, plan.tasks, plan.exams,
                             plan.user_stats, plan.behavior_log)
        /\ today = plan.today
        /\ subjects = _load(data_file).subjects
        /\ tasks = _load(data_file).tasks
        /\ exams = _load(data_file).exams
        /\ user_stats = _load(data_file).user_stats
        /\ behavior_log = _load(data_file).behavior_log
        /\ lastCmd = Cmd("init", 0)
        /\ reply = Msg("greeting")
        /\ awards = IF c > 0 THEN 1 ELSE 0
        /\ other = NoOther

NextLevel == get_stats_text

SpecLevel == InitLevel /\ [][NextLevel]_vars

\* ----------------------------------------- a second StudyPlan, same store
\* StudyPlan() in a second session: the aggregate loaded from the data file
OtherLoaded(f) ==
    [live |-> TRUE, subjects |-> _load(f).subjects, tasks |-> _load(f).tasks,
     exams |-> _load(f).exams, user_stats |-> _load(f).user_stats,
     behavior_log |-> _load(f).behavior_log]

\* self._save() of the second StudyPlan
other_save(o) == _save(o.subjects, o.tasks, o.exams, o.user_stats, o.behavior_log)

\* variant: the save reloads the stored subjects and appends to them
other_add_subject_merging(name, hours, priority, deadline, subject_type) ==
    /\ other.live
    /\ other' = [other EXCEPT !.subjects =
                     Append(@, Subject(name, hours, priority, deadline, subject_type))]
    /\ data_file' = other_save([other' EXCEPT !.subjects =
                         Append(_load(data_file).subjects,
                                Subject(name, hours, priority, deadline, subject_type))])
    /\ UNCHANGED <<mem, today, awards>>
    /\ lastCmd' = Cmd("other.add_subject", 0)
    /\ reply' = Msg("Added")

\* add_subject called on the second StudyPlan
other_add_subject(name, hours, priority, deadline, subject_type) ==
    /\ other.live
    /\ other' = [other EXCEPT !.subjects =
                     Append(@, Subject(name, hours, priority, deadline, subject_type))]
    /\ data_file' = other_save(other')
    /\ UNCHANGED <<mem, today, awards>>
    /\ lastCmd' = Cmd("other.add_subject", 0)
    /\ reply' = Msg("Added")

\* add_task called on the second StudyPlan
other_add_task(subject_name, title, due_date, tid) ==
    /\ other.live
    /\ other' = [other EXCEPT !.tasks =
                     Append(@, Task(tid, subject_name, title, due_date, _today_str))]
    /\ data_file' = other_save(other')
    /\ UNCHANGED <<mem, today, awards>>
    /\ lastCmd' = Cmd("other.add_task", tid)
    /\ reply' = Msg("Task added")

\* the store both sessions find: absent, or left by an earlier session
TwoStores ==
    {NoFile,
     _save(<<Subject("Math", 2, 1, None, "general")>>, <<>>, <<>>, UserStats, <<>>)}

\* two sessions have constructed their StudyPlan on the same store
InitTwo ==
    /\ data_file \in TwoStores
    /\ today = 0
    /\ subjects = _load(data_file).subjects
    /\ tasks = _load(data_file).tasks
    /\ exams = _load(data_file).exams
    /\ user_stats = _load(data_file).user_stats
    /\ behavior_log = _load(data_file).behavior_log
    /\ other = OtherLoaded(data_file)
    /\ lastCmd = Cmd("init", 0)
    /\ reply = Msg("greeting")
    /\ awards = 0

NextTwo ==
    \/ /\ Len(subjects) < TwoMaxSubjects
       /\ \E name \in SubjectNames, hours \in HoursSet :
              add_subject(name, hours, 1, None, "general")
    \/ /\ Len(tasks) < TwoMaxTasks
       /\ \E title \in Titles, tid \in {FreshId(tasks)} :
              add_task("Math", title, None, tid)
    \/ /\ Len(other.subjects) < TwoMaxSubjects
       /\ \E name \in SubjectNames, hours \in HoursSet :
              other_add_subject(name, hours, 1, None, "general")
    \/ /\ Len(other.tasks) < TwoMaxTasks
       /\ \E title \in Titles, tid \in {FreshId(other.tasks)} :
              other_add_task("Math", title, None, tid)

SpecTwo == InitTwo /\ [][NextTwo]_vars

\* the chat lines of at most ParseMaxWords words
Texts == UNION {[1..n -> Words] : n \in 1..ParseMaxWords}

\* the first lines of a session, up to the first that adds a subject
NextParse ==
    /\ subjects = <<>>
    /\ \E text \in Texts : bot_response(text)

SpecParse == Init /\ [][NextParse]_vars

\* ================================================================== claims
LastN(log, n) == SubSeq(log, Max(1, Len(log) - n + 1), Len(log))

\* C2: after every save the persisted behavior_log has at most 500 entries
\* and is the most recent 500 entries of the in-memory log.
C2_PersistedLogCapped ==
    data_file.exists =>
        /\ Len(data_file.data.behavior_log) <= MAX_ENTRIES
        /\ data_file.data.behavior_log = LastN(behavior_log, MAX_ENTRIES)

\* the task complete_task / skip_task acts on: the id is in some task
InSomeTask(id) == \E k \in 1..Len(tasks) : tasks[k].id = id

StreakBonus(streak) ==
    IF streak > 1 THEN Min(MAX_STREAK_BONUS_POINTS, streak - 1) ELSE 0

\* C1: no task is both done and skipped, in any reachable state.
C1_NoDoneAndSkipped ==
    \A k \in 1..Len(tasks) : ~(tasks[k].done /\ tasks[k].skipped)

\* C3: every complete_task call on an existing task that is not yet done
\* raises total_points by 10, plus min(5, streak - 1) when the resulting
\* streak is greater than 1.
C3_EveryCompletionAwards ==
    [][\A id \in QueryIds(tasks) :
         (complete_task(id) /\ InSomeTask(id) /\ ~tasks[FirstTask(id)].done)
         => user_stats'.total_points =
                user_stats.total_points + POINTS_PER_TASK
                + StreakBonus(user_stats'.current_streak)]_vars

\* C4: complete_task on a task that is already done returns "already done"
\* and leaves stats, tasks, behavior log and the persisted blob as they were.
C4_AlreadyDoneIsNoop ==
    [][\A id \in QueryIds(tasks) :
         (complete_task(id) /\ InSomeTask(id) /\ tasks[FirstTask(id)].done)
         => /\ reply'.msg = "Task already done."
            /\ user_stats' = user_stats
            /\ tasks' = tasks
            /\ behavior_log' = behavior_log
            /\ data_file' = data_file]_vars

C4_Witness ==
    /\ lastCmd.op = "complete_task"
    /\ reply.msg = "Task already done."
    /\ InSomeTask(lastCmd.arg)
    /\ user_stats.total_points > 0

\* the dates of the "done" entries of the behavior log, in order
DoneDates ==
    LET dones == SelectSeq(behavior_log, LAMBDA x : x.action = "done")
    IN  [k \in 1..Len(dones) |-> dones[k].date]

\* C5: at the first completion of a calendar day the streak becomes 1 when
\* there was no completion before, grows by 1 when the previous completion
\* was the day before, and is reset to 1 for any other gap; completions on
\* days D, D+1, D+2 give 1, 2, 3 and completions on D, D+2 give 1.
C5_StreakAcrossDays ==
    /\ [][\A id \in QueryIds(tasks) :
            (/\ complete_task(id) /\ InSomeTask(id)
             /\ ~tasks[FirstTask(id)].done
             /\ user_stats.last_completion_date # today)
            => LET last == user_stats.last_completion_date IN
               /\ last = None => user_stats'.current_streak = 1
               /\ (last # None /\ today - last = 1)
                      => user_stats'.current_streak = user_stats.current_streak + 1
               /\ (last # None /\ today - last # 1)
                      => user_stats'.current_streak = 1
               /\ user_stats'.last_completion_date = today]_vars
    /\ [](\A D \in 0..GameMaxDay :
            /\ DoneDates = <<D>> => user_stats.current_streak = 1
            /\ DoneDates = <<D, D + 1>> => user_stats.current_streak = 2
            /\ DoneDates = <<D, D + 1, D + 2>> => user_stats.current_streak = 3
            /\ DoneDates = <<D, D + 2>> => user_stats.current_streak = 1)

C5_Witness ==
    /\ lastCmd.op = "complete_task"
    /\ DoneDates = <<0, 1, 2>>
    /\ user_stats.current_streak = 3

\* C6: skip_task on a task that is already done or already skipped only
\* returns a message: total_points, the task's flags and the behavior log
\* stay as they were.
C6_SkipOnTerminalIsNoop ==
    [][\A id \in QueryIds(tasks) :
         (/\ skip_task(id) /\ InSomeTask(id)
          /\ (tasks[FirstTask(id)].done \/ tasks[FirstTask(id)].skipped))
         => /\ user_stats'.total_points = user_stats.total_points
            /\ tasks' = tasks
            /\ behavior_log' = behavior_log]_vars

InSomeExam(id) == \E k \in 1..Len(exams) : exams[k].id = id

\* C7: complete_task, skip_task and get_revision_plan with an id that is in
\* no task (no exam) return a not-found message and leave the in-memory
\* aggregate and the persisted blob unchanged.
C7_NotFoundIsNoop ==
    [][\A id \in QueryIds(tasks) \cup QueryIds(exams) :
         /\ (complete_task(id) /\ ~InSomeTask(id))
            => (reply'.msg = "Task not found." /\ UNCHANGED <<mem, data_file>>)
         /\ (skip_task(id) /\ ~InSomeTask(id))
            => (reply'.msg = "Task not found." /\ UNCHANGED <<mem, data_file>>)
         /\ (get_revision_plan(id) /\ ~InSomeExam(id))
            => (reply'.msg = "Exam not found." /\ UNCHANGED <<mem, data_file>>)]_vars

C7_Witness ==
    /\ lastCmd.op = "skip_task"
    /\ reply.msg = "Task not found."
    /\ tasks # <<>>
    /\ ~InSomeTask(lastCmd.arg)

\* C8: in every state between commands a StudyPlan freshly loaded from the
\* store has subjects, tasks, exams and user_stats equal, field for field
\* and in the same order, to the in-memory ones.
C8_StoreHoldsWholeAggregate ==
    LET fresh == _load(data_file) IN
    /\ fresh.subjects = subjects
    /\ fresh.tasks = tasks
    /\ fresh.exams = exams
    /\ fresh.user_stats = user_stats

C8_Witness ==
    /\ data_file.exists
    /\ subjects # <<>>
    /\ exams # <<>>
    /\ \E k \in 1..Len(tasks) : tasks[k].done
    /\ user_stats.total_points > 0

ReadOnlyOps ==
    {"list_subjects", "list_tasks", "list_exams", "get_stats_text",
     "suggest_daily_schedule", "suggest_weekly_schedule",
     "get_adaptive_study_hours", "get_revision_plan"}

\* C9: a step of a read-only method never writes to the store and leaves
\* every member of the in-memory aggregate unchanged.
C9_ReadOnlyMethodsChangeNothing ==
    [][lastCmd'.op \in ReadOnlyOps => UNCHANGED <<mem, data_file>>]_vars

C9_Witness ==
    /\ lastCmd.op = "suggest_daily_schedule"
    /\ Len(subjects) = 2
    /\ subjects # Sorted(subjects)
    /\ reply.data = <<180, 60>>

\* C10: clear() empties subjects, tasks, exams and behavior_log, zeroes the
\* stats (level 1), persists that aggregate, and a StudyPlan loaded
\* afterwards equals one loaded from a store that was never written.
C10_ClearResetsAndPersists ==
    [][clear =>
         /\ subjects' = <<>> /\ tasks' = <<>> /\ exams' = <<>>
         /\ behavior_log' = <<>>
         /\ user_stats'.total_points = 0
         /\ user_stats'.current_streak = 0
         /\ user_stats'.last_completion_date = None
         /\ level(user_stats') = 1
         /\ data_file'.exists
         /\ _load(data_file') = [subjects |-> subjects', tasks |-> tasks',
                                 exams |-> exams', user_stats |-> user_stats',
                                 behavior_log |-> behavior_log']
         /\ _load(data_file') = _load(NoFile)]_vars

C10_Witness ==
    /\ lastCmd.op = "clear"
    /\ data_file.exists
    /\ _load(data_file) = _load(NoFile)

\* the store is absent or corrupted: unparseable, not an object, or an object
\* with a member of the wrong shape
Corrupted(f) ==
    \/ ~f.exists
    \/ ~f.parses
    \/ f.data.type # "dict"
    \/ f.data.wrong # {}

\* C11: constructing a StudyPlan never raises, whatever the store holds, and
\* on an absent or corrupted store it ends with empty subjects, tasks and
\* exams and zeroed stats.
C11_LoadNeverRaises ==
    lastCmd.op = "StudyPlan" =>
        /\ reply.msg # "raised"
        /\ Corrupted(data_file) =>
               /\ subjects = <<>> /\ tasks = <<>> /\ exams = <<>>
               /\ user_stats = UserStats

\* the tokens a name is made of: not numeric, not a filler
NameWords == {w \in Words : ~IsFloat(w) /\ w \notin Fillers}

\* C12: for a line 'add X N hours' (any letter case of 'add', X one or more
\* non-numeric tokens, N a positive number) the subject stored has the name
\* X, joined by single spaces and without the word 'add', and N hours.
C12_AddStoresNameAndHours ==
    [][\A text \in Texts :
         (/\ Len(text) >= 4
          /\ lower(text[1]) = "add"
          /\ text[Len(text)] = "hours"
          /\ IsFloat(text[Len(text) - 1]) /\ float(text[Len(text) - 1]) > 0
          /\ \A k \in 2..(Len(text) - 2) : text[k] \in NameWords
          /\ bot_response(text))
         => /\ Len(subjects') = Len(subjects) + 1
            /\ subjects'[Len(subjects')].name = Join(SubSeq(text, 2, Len(text) - 2))
            /\ subjects'[Len(subjects')].hours_per_week = float(text[Len(text) - 1])]_vars

\* the tokens after the word 'add' that opens the line, fillers removed
TokensAfterAdd(text) == SelectSeq(Tail(text), LAMBDA w : w \notin Fillers)

\* C13: when the tokens after 'add' (fillers removed) hold no numeric token
\* the name stored is the first of those tokens only and hours is 2.0; when
\* the numeric token is 0 hours is 2.0 as well.
C13_DefaultHoursAndFirstToken ==
    [][\A text \in Texts :
         (/\ Len(text) >= 2
          /\ lower(text[1]) = "add"
          /\ TokensAfterAdd(text) # <<>>
          /\ bot_response(text))
         => LET toks == TokensAfterAdd(text)
                nums == {k \in 1..Len(toks) : IsFloat(toks[k])}
            IN  /\ nums = {} =>
                       /\ Len(subjects') = Len(subjects) + 1
                       /\ subjects'[Len(subjects')].name = toks[1]
                       /\ subjects'[Len(subjects')].hours_per_week = 2
                /\ (nums # {} /\ \A k \in nums : float(toks[k]) = 0) =>
                       /\ Len(subjects') = Len(subjects) + 1
                       /\ subjects'[Len(subjects')].hours_per_week = 2]_vars

\* C18: every subject of the plan has hours_per_week >= 0.
C18_HoursNeverNegative ==
    \A k \in 1..Len(subjects) : subjects[k].hours_per_week >= 0

RECURSIVE Flatten(_)
Flatten(buckets) ==
    IF buckets = <<>> THEN <<>> ELSE Head(buckets) \o Flatten(Tail(buckets))

\* ceil(n / d) for n >= 1, d >= 1
Ceil(n, d) == CHOOSE k \in 1..n : k * d >= n /\ (k - 1) * d < n

\* C14: for an exam with n >= 1 chapter items and d > 0 days left the plan
\* has day-buckets 1, 2, ... whose concatenation is the item list in order,
\* each of 1 to ceil(n / d) items (every bucket but the last is full), at
\* most d buckets; chapters "1-5" with 3 days left give [1,2], [3,4], [5].
C14_RevisionPlanSpreadsItems ==
    [][\A id \in QueryIds(exams) :
         (/\ get_revision_plan(id) /\ InSomeExam(id)
          /\ HasDaysLeft(exams[FirstExam(id)])
          /\ exams[FirstExam(id)].chapters # <<>>)
         => LET e == exams[FirstExam(id)]
                parsed == ParseChapters(e.chapters)
                items == IF parsed = <<>> THEN <<0>> ELSE parsed
                n == Len(items)
                d == e.exam_date - today
                per_day == Ceil(n, d)
                b == reply'.buckets
            IN  /\ reply'.msg = "Revision plan"
                /\ Flatten(b) = items
                /\ Len(b) >= 1 /\ Len(b) <= d
                /\ \A k \in 1..Len(b) : Len(b[k]) >= 1 /\ Len(b[k]) <= per_day
                /\ \A k \in 1..(Len(b) - 1) : Len(b[k]) = per_day
                /\ (items = <<1, 2, 3, 4, 5>> /\ d = 3)
                       => b = << <<1, 2>>, <<3, 4>>, <<5>> >>]_vars

C14_Witness ==
    /\ lastCmd.op = "get_revision_plan"
    /\ exams # <<>>
    /\ exams[1].exam_date - today = 3
    /\ reply.buckets = << <<1, 2>>, <<3, 4>>, <<5>> >>

\* total_weight: the sum of hours_per_week, or 2 * len when the sum is <= 0
TotalWeight(subs) ==
    IF SumHours(subs) <= 0 THEN 2 * Len(subs) ELSE SumHours(subs)

\* C15: suggest_daily_schedule gives each subject
\* max(15, floor(hours_per_day * 60 * share)) minutes, share =
\* (hours_per_week, or 1 if zero) / total_weight, total_weight the sum of
\* hours_per_week or 2 * (number of subjects) when the sum is <= 0, whatever
\* the order of the subjects.
C15_DailyMinutesByShare ==
    [][\A h10 \in SchedHoursPerDay :
         (suggest_daily_schedule(h10) /\ subjects # <<>>)
         => LET shown == Sorted(subjects) IN
            /\ Len(reply'.data) = Len(subjects)
            /\ \A k \in 1..Len(shown) :
                   reply'.data[k] =
                       Max(15, (h10 * 6 * OrOne(shown[k].hours_per_week))
                                   \div TotalWeight(subjects))]_vars

\* C17: no two subjects of the plan have the same name.
C17_SubjectNamesUnique ==
    \A i, j \in 1..Len(subjects) :
        subjects[i].name = subjects[j].name => i = j

C20_TaskIdsUnique ==
    \A i, j \in 1..Len(tasks) : tasks[i].id = tasks[j].id => i = j

\* a complete_task call on a not-yet-done task while last_completion_date is
\* today: stats unchanged, task done today, one "done" entry, all persisted
SameDayCompletion ==
    \A id \in QueryIds(tasks) :
        (/\ complete_task(id) /\ InSomeTask(id)
         /\ ~tasks[FirstTask(id)].done
         /\ user_stats.last_completion_date = today)
        => /\ user_stats' = user_stats
           /\ tasks' = [tasks EXCEPT ![FirstTask(id)].done = TRUE,
                                     ![FirstTask(id)].completed_at = today]
           /\ behavior_log' = Append(behavior_log,
                  [date |-> today, task_id |-> id, action |-> "done",
                   title |-> tasks[FirstTask(id)].title])
           /\ data_file'.exists
           /\ _load(data_file') = [subjects |-> subjects', tasks |-> tasks',
                                   exams |-> exams', user_stats |-> user_stats',
                                   behavior_log |-> behavior_log']

\* C21 (as stated): a completion on a day whose last_completion_date is
\* already today leaves the stats alone, marks the task done, logs it and
\* persists; total_points rises through completions at most once per
\* calendar day.
C21_OncePerCalendarDay ==
    /\ [][SameDayCompletion]_vars
    /\ [](awards <= 1)

\* C21 (amended): the same step facts; a completion raises total_points only
\* when last_completion_date is not today, that is at most once per calendar
\* day among the completions since the start or the last clear (the "done"
\* entries of the behavior log).
C21_OncePerDaySinceClear ==
    [][/\ SameDayCompletion
       /\ \A id \in QueryIds(tasks) :
            (complete_task(id) /\ user_stats'.total_points > user_stats.total_points)
            => /\ user_stats.last_completion_date # today
               /\ user_stats'.last_completion_date = today
               /\ \A k \in 1..Len(behavior_log) :
                      ~(behavior_log[k].action = "done"
                        /\ behavior_log[k].date = today)]_vars

C21_Witness ==
    /\ lastCmd.op = "complete_task"
    /\ reply.msg = "Done."
    /\ Cardinality({k \in 1..Len(tasks) :
            tasks[k].done /\ tasks[k].completed_at = today}) = 2
    /\ user_stats.total_points = POINTS_PER_TASK
    /\ awards = 1

\* C22: every skip_task call on a pending task (not done, not skipped)
\* lowers total_points by exactly 3, whatever was skipped before on the
\* same day and also below zero, and leaves current_streak and
\* last_completion_date as they were.
C22_SkipCostsThree ==
    [][\A id \in QueryIds(tasks) :
         (/\ skip_task(id) /\ InSomeTask(id)
          /\ ~tasks[FirstTask(id)].done /\ ~tasks[FirstTask(id)].skipped)
         => /\ user_stats'.total_points = user_stats.total_points - 3
            /\ user_stats'.current_streak = user_stats.current_streak
            /\ user_stats'.last_completion_date = user_stats.last_completion_date]_vars

\* two pending tasks skipped on one day: 6 points lost, total below zero
C22_Witness ==
    /\ lastCmd.op = "skip_task"
    /\ Len(tasks) = 2
    /\ tasks[1].skipped /\ tasks[2].skipped
    /\ Len(behavior_log) = 2
    /\ behavior_log[1].date = behavior_log[2].date
    /\ behavior_log[1].task_id # behavior_log[2].task_id
    /\ user_stats.total_points = 0 - 6

\* the calendar days with a completion since the start or the last clear
DoneDays == {DoneDates[k] : k \in 1..Len(DoneDates)}

\* the number of consecutive days of the set `days` that end at day `last`
RunEndingAt(days, last) ==
    CHOOSE n \in 1..(last + 1) :
        /\ \A d \in (last - n + 1)..last : d \in days
        /\ (last - n) \notin days

\* C23: when no task has been completed since the start or the last clear
\* current_streak is 0 and last_completion_date is unset; otherwise
\* last_completion_date is the latest day with a completion and
\* current_streak is the number of consecutive calendar days ending there
\* that each have a completion.
C23_StreakIsConsecutiveDays ==
    IF DoneDays = {}
    THEN /\ user_stats.current_streak = 0
         /\ user_stats.last_completion_date = None
    ELSE /\ user_stats.last_completion_date \in DoneDays
         /\ \A d \in DoneDays : d <= user_stats.last_completion_date
         /\ user_stats.current_streak =
                RunEndingAt(DoneDays, user_stats.last_completion_date)

C23_Witness ==
    /\ lastCmd.op = "complete_task"
    /\ DoneDays = {0, 2}
    /\ user_stats.current_streak = 1
    /\ user_stats.last_completion_date = 2

\* the aggregate a StudyPlan constructed now would load
Persisted(f) == OtherLoaded(f)

\* C24: with two StudyPlans on one store, after every save the persisted
\* blob is exactly the saving instance's in-memory aggregate: what the other
\* instance persisted before and the saver does not hold is no longer in
\* the store.
C24_LastWriterWins ==
    [][/\ (lastCmd'.op \in {"add_subject", "add_task"} /\ mem' # mem)
          => /\ Persisted(data_file') =
                    [live |-> TRUE, subjects |-> subjects', tasks |-> tasks',
                     exams |-> exams', user_stats |-> user_stats',
                     behavior_log |-> behavior_log']
             /\ \A k \in 1..Len(other.subjects) :
                    (\A j \in 1..Len(subjects') : subjects'[j] # other.subjects[k])
                    => \A j \in 1..Len(data_file'.data.subjects) :
                           Subject_from_dict(data_file'.data.subjects[j])
                               # other.subjects[k]
       /\ (lastCmd'.op \in {"other.add_subject", "other.add_task"} /\ other' # other)
          => /\ Persisted(data_file') = other'
             /\ \A k \in 1..Len(subjects) :
                    (\A j \in 1..Len(other'.subjects) : other'.subjects[j] # subjects[k])
                    => \A j \in 1..Len(data_file'.data.subjects) :
                           Subject_from_dict(data_file'.data.subjects[j])
                               # subjects[k]]_vars

\* the first instance persisted a subject, the second saved afterwards and
\* the store no longer has it
C24_Witness ==
    /\ lastCmd.op = "other.add_subject"
    /\ \E k \in 1..Len(subjects) :
           /\ subjects[k].hours_per_week = 6
           /\ \A j \in 1..Len(data_file.data.subjects) :
                  Subject_from_dict(data_file.data.subjects[j]) # subjects[k]

\* C25: the summary a successful complete_task returns is truthful: the
\* points figure it announces is the amount by which total_points rose in
\* that call, and the streak and the level it shows are those after it.
C25_SummaryIsTruthful ==
    [][\A id \in QueryIds(tasks) :
          (complete_task(id) /\ InSomeTask(id) /\ ~tasks[FirstTask(id)].done)
          => /\ reply'.msg = "Done."
             /\ reply'.points = user_stats'.total_points - user_stats.total_points
             /\ reply'.streak = user_stats'.current_streak
             /\ reply'.level = level(user_stats')]_vars

\* C26: the "Your plan is reduced" note is returned only in a state where
\* get_adaptive_study_hours returns less than the default hours, and the
\* empty string whenever the hours are not reduced.
C26_NoteOnlyWhenReduced ==
    [][get_schedule_strict_note
       => /\ (reply'.msg = "Your plan is reduced"
                 => AdaptiveHours
                        < DEFAULT_STUDY_HOURS_PER_DAY)
          /\ (AdaptiveHours
                 >= DEFAULT_STUDY_HOURS_PER_DAY => reply'.msg = "")]_vars

====
